---- MODULE Spec2Model ----
(***************************************************************************)
(* Model of src/Updater/Updater.py: the firmware catalog scan, the         *)
(* firmware selector and the upload session driven by receiveAnswer and    *)
(* deviceInfoRequest.                                                      *)
(*                                                                         *)
(* Python tuples and byte strings are TLA+ sequences, so a Python index i  *)
(* is the TLA+ index i+1.  Inbound packets are the tuple struct.unpack     *)
(* yields together with the byte length of the packet; outbound frames are *)
(* the argument list of struct.pack together with the raw payload.         *)
(***************************************************************************)
EXTENDS Integers, Sequences, FiniteSets, TLC

VARIABLES
    files,       \* the firmware directory: what os.listdir / open().read() see
    fwDict,      \* self.__fwDict, in insertion order: <<name, DeviceInfo>>
    isUpdating,  \* self.__isUpdating
    newDevInfo,  \* self.__newDevInfo: None or <<name, DeviceInfo>>
    fwInfo,      \* self.__fwInfo: None or [fw, size, packetNum, packetSize]
    out,         \* every frame handed to the outbound sink, oldest first
    pending,     \* the peer's inbox: opcodes of the requests it has yet to answer
    last,        \* the entry point called by the last step and its argument
    sent,        \* the frames handed to the sink during the last call
    raised       \* TRUE iff the last call ended by raising

vars == <<files, fwDict, isUpdating, newDevInfo, fwInfo, out, pending, last, sent, raised>>

None == <<>>        \* Python None; a present value x is <<x>>
Some(x) == <<x>>
The(o) == o[1]

(***************************************************************************)
(* Bounds of the model.                                                    *)
(***************************************************************************)
MaxFiles == 2      \* files in the directory of the selector specification
MaxLog == 4        \* frames emitted in a run with an arbitrary peer
MaxRun == 7        \* frames emitted in a run with a request/response peer
MaxAsk == 1        \* calls of deviceInfoRequest in a run with an arbitrary peer
MaxCalls == 2      \* calls of deviceInfoRequest in a run with a request/response peer
MaxK == 2          \* largest resync index a FwPacket response carries

(***************************************************************************)
(* Protocol constants.                                                     *)
(***************************************************************************)
UNPACK_BIN_TAG_LEN == 28
UNPACK_DEVICE_INFO_LEN == 19
UNPACK_START_UPLOAD_LEN == 2
UNPACK_FW_PACKET_LEN == 6
UNPACK_FINISH_UPLOAD_LEN == 2

deviceInfo == 1
startUpload == 2
fwPacket == 3
finishUpload == 4
abortUpload == 5
systemReset == 6

success == 0
packetSizeError == 1
wrontPageNumError == 4
crcError == 7

DEVICE_INFO_TAG == <<17, 7, 90, 120, 59, 2, 150, 204, 240, 240>>
UPDATER_COMMAND == 1
PadByte == 255

(***************************************************************************)
(* Byte strings.                                                           *)
(***************************************************************************)
Min(a, b) == IF a < b THEN a ELSE b
Max(a, b) == IF a > b THEN a ELSE b

\* Python s[a:b] for 0 <= a, 0 <= b
Slice(s, a, b) == SubSeq(s, a + 1, Min(b, Len(s)))

\* bytes((x,)) * n
Repeat(x, n) == [i \in 1..n |-> x]

RECURSIVE Pow256(_)
Pow256(n) == IF n = 0 THEN 1 ELSE 256 * Pow256(n - 1)

\* struct.pack('<H' / '<I'): w little-endian bytes of n
PackLE(n, w) == [i \in 1..w |-> (n \div Pow256(i - 1)) % 256]

\* struct.unpack('<H' / '<I'): the integer of little-endian bytes b
RECURSIVE UnpackLE(_)
UnpackLE(b) == IF b = <<>> THEN 0 ELSE b[1] + 256 * UnpackLE(Tail(b))

\* DeviceInfo namedtuple: BootVersion, DeviceId, MajorVersion, MinorVersion,
\* FwPacketSize, FwMaxSize, BuildTime (Python indices 0..6, here 1..7)
DeviceInfo(boot, dev, major, minor, psize, maxsize, btime) ==
    <<boot, dev, major, minor, psize, maxsize, btime>>

\* struct.pack('<HI2H2I10s', *devInfo): how a firmware image carries its tag data
PackBinTag(d) ==
    PackLE(d[1], 2) \o PackLE(d[2], 4) \o PackLE(d[3], 2) \o PackLE(d[4], 2)
        \o PackLE(d[5], 4) \o PackLE(d[6], 4) \o d[7]

\* struct.unpack('<HI2H2I10s', b) for Len(b) = 28
UnpackBinTag(b) ==
    DeviceInfo(UnpackLE(Slice(b, 0, 2)), UnpackLE(Slice(b, 2, 6)),
               UnpackLE(Slice(b, 6, 8)), UnpackLE(Slice(b, 8, 10)),
               UnpackLE(Slice(b, 10, 14)), UnpackLE(Slice(b, 14, 18)),
               Slice(b, 18, 28))

\* DEVICE_INFO_TAG in data
HasTag(data) ==
    \E i \in 0..Len(data) : Slice(data, i, i + Len(DEVICE_INFO_TAG)) = DEVICE_INFO_TAG

\* data.index(DEVICE_INFO_TAG)
TagIndex(data) ==
    CHOOSE i \in 0..Len(data) :
        /\ Slice(data, i, i + Len(DEVICE_INFO_TAG)) = DEVICE_INFO_TAG
        /\ \A j \in 0..(i - 1) : Slice(data, j, j + Len(DEVICE_INFO_TAG)) # DEVICE_INFO_TAG

(***************************************************************************)
(* The firmware directory.  A directory entry is                           *)
(* [name, isfile, bin, data]: bin says that the name contains '.bin'.      *)
(***************************************************************************)
BuildTime == [i \in 1..10 |-> 48]
Names == <<"a.bin", "b.bin", "c.bin", "d.bin">>

\* an image that carries the tag block of info after junk bytes and before rest
Image(junk, info, rest) == junk \o DEVICE_INFO_TAG \o PackBinTag(info) \o rest
\* an image whose tag block is cut short after keep bytes
ShortImage(info, keep) == DEVICE_INFO_TAG \o Slice(PackBinTag(info), 0, keep)
\* an image without the tag
PlainImage == <<1, 2, 3, 4, 5, 6, 7, 8, 9, 10, 11, 12>>

Entry(i, data) == [name |-> Names[i], isfile |-> TRUE, bin |-> TRUE, data |-> data]

\* directories of n files with the contents of set S, named in listing order
RECURSIVE DirsOf(_, _)
DirsOf(S, n) ==
    IF n = 0 THEN {<<>>}
    ELSE {<<>>} \cup
         {Append(d, Entry(Len(d) + 1, c)) : d \in {e \in DirsOf(S, n - 1) : Len(e) = n - 1}, c \in S}
         \cup DirsOf(S, n - 1)


(***************************************************************************)
(* Updater.__searchFirmwareFiles: the catalog of a directory listing.      *)
(* dir is None when fwDir does not exist.                                  *)
(***************************************************************************)
\* the loop of lines 260-269: struct.unpack raises on a slice that is not 28
\* bytes long, which ends the loop with dict as it is and error set
RECURSIVE ScanFiles(_, _)
ScanFiles(fwList, dict) ==
    IF fwList = <<>> THEN [dict |-> dict, error |-> FALSE]
    ELSE LET f == Head(fwList)
             devInfoIndex == TagIndex(f.data) + Len(DEVICE_INFO_TAG)
             block == Slice(f.data, devInfoIndex, devInfoIndex + UNPACK_BIN_TAG_LEN)
         IN  IF ~HasTag(f.data) THEN ScanFiles(Tail(fwList), dict)
             ELSE IF Len(block) # UNPACK_BIN_TAG_LEN THEN [dict |-> dict, error |-> TRUE]
             ELSE ScanFiles(Tail(fwList), Append(dict, <<f.name, UnpackBinTag(block)>>))

\* __searchFirmwareFiles as it would be without the try/except around the loop
searchFirmwareFiles_NoExcept(dir) ==
    IF dir = None THEN [dict |-> <<>>, error |-> FALSE]
    ELSE LET IsBin(f) == f.isfile /\ f.bin
             fwList == SelectSeq(The(dir), IsBin)
         IN  IF Len(fwList) = 0 THEN [dict |-> <<>>, error |-> FALSE]
             ELSE ScanFiles(fwList, <<>>)

\* the catalog and whether the exception leaves the method: the bare except
\* of line 270 catches whatever the loop raises
searchFirmwareFiles(dir) ==
    IF dir = None THEN [dict |-> <<>>, error |-> FALSE]
    ELSE LET IsBin(f) == f.isfile /\ f.bin
             fwList == SelectSeq(The(dir), IsBin)
         IN  IF Len(fwList) = 0 THEN [dict |-> <<>>, error |-> FALSE]
             ELSE [ScanFiles(fwList, <<>>) EXCEPT !.error = FALSE]

\* open(name, 'rb').read()
ReadFile(name) ==
    LET d == The(files) IN d[CHOOSE k \in 1..Len(d) : d[k].name = name].data

(***************************************************************************)
(* Updater.__getNewDeviceInfo: the firmware selector.                      *)
(***************************************************************************)
\* tuple comparison of the sort key (item[1][4], item[1][3])
SortKey(item) == <<item[2][5], item[2][4]>>
KeyLess(a, b) == a[1] < b[1] \/ (a[1] = b[1] /\ a[2] < b[2])

\* sorted(items, key=...): stable, so x goes behind every item whose key is
\* not greater than its own
RECURSIVE InsertSorted(_, _)
InsertSorted(s, x) ==
    IF s = <<>> THEN <<x>>
    ELSE IF KeyLess(SortKey(x), SortKey(Head(s))) THEN <<x>> \o s
    ELSE <<Head(s)>> \o InsertSorted(Tail(s), x)

RECURSIVE Sorted(_)
Sorted(items) ==
    IF items = <<>> THEN <<>>
    ELSE InsertSorted(Sorted(SubSeq(items, 1, Len(items) - 1)), items[Len(items)])

\* None or Some(<<name, DeviceInfo>>)
getNewDeviceInfo(dict, deviceId) ==
    LET Match(item) == item[2][3] = deviceId     \* devInfo[2] == deviceId
        devInfoList == SelectSeq(dict, Match)
        dct == SelectSeq(dict, Match)
        all == Sorted(dict)                      \* sorted(self.__fwDict.items(), ...)
    IN  IF Len(dict) = 0 THEN None
        ELSE IF Len(devInfoList) = 0 THEN None
        ELSE IF Len(dct) > 0 THEN Some(all[Len(all)])   \* {...}.popitem()
        ELSE None

(***************************************************************************)
(* Frames.  An outbound frame is the argument list of its struct.pack call *)
(* and the raw bytes appended to it.  An inbound packet is                 *)
(* [len, fields]: its length in bytes and the tuple struct.unpack yields   *)
(* when that length is the expected one; fields[1] is packet[0].           *)
(***************************************************************************)
Frame(cmd, args, payload) ==
    [module |-> UPDATER_COMMAND, cmd |-> cmd, args |-> args, payload |-> payload]

Packet(len, fields) == [len |-> len, fields |-> fields]

\* the injected checksum function: a 16-bit sum of the buffer
RECURSIVE SumBytes(_)
SumBytes(b) == IF b = <<>> THEN 0 ELSE b[1] + SumBytes(Tail(b))
calcCrc(fw) == SumBytes(fw) % 65536

(***************************************************************************)
(* The methods of Updater as functions of the object's state               *)
(* u = [isUpdating, newDevInfo, fwInfo, sent, raised].  A method that      *)
(* raises keeps the assignments made before the raise.                     *)
(***************************************************************************)
appCallback(u, frame) == [u EXCEPT !.sent = Append(@, frame)]
Raise(u) == [u EXCEPT !.raised = TRUE]

\* __sendFirmwarePacket as it would be if it took a full packet off the
\* counter on every send and did not clamp
sendFirmwarePacket_NoClamp(u, packetNum) ==
    IF u.fwInfo = None THEN Raise(u)
    ELSE
    LET fi == The(u.fwInfo)
        dataOffset == packetNum * fi.packetSize
        packetSize == IF fi.size > fi.packetSize THEN fi.packetSize ELSE fi.size
        data == Slice(fi.fw, dataOffset, dataOffset + packetSize)
        payload == IF packetSize < fi.packetSize
                   THEN data \o Repeat(PadByte, fi.packetSize - packetSize)
                   ELSE data
        u1 == appCallback(u, Frame(fwPacket, <<packetNum, fi.packetSize, dataOffset>>, payload))
    IN  [u1 EXCEPT !.fwInfo = Some([fi EXCEPT !.size = fi.size - fi.packetSize,
                                              !.packetNum = packetNum + 1])]

\* Updater.__sendFirmwarePacket
sendFirmwarePacket(u, packetNum) ==
    IF u.fwInfo = None THEN Raise(u)       \* None has no attribute packetSize
    ELSE
    LET fi == The(u.fwInfo)
        dataOffset == packetNum * fi.packetSize
        packetSize == IF fi.size > fi.packetSize THEN fi.packetSize ELSE fi.size
        size1 == fi.size - packetSize
        size2 == IF size1 < 0 THEN 0 ELSE size1
        packet == <<packetNum, fi.packetSize, dataOffset>>
        data == Slice(fi.fw, dataOffset, dataOffset + packetSize)
        payload == IF packetSize < fi.packetSize
                   THEN data \o Repeat(PadByte, fi.packetSize - packetSize)
                   ELSE data
        u1 == appCallback(u, Frame(fwPacket, packet, payload))
    IN  [u1 EXCEPT !.fwInfo = Some([fi EXCEPT !.size = size2, !.packetNum = packetNum + 1])]

\* Updater.__startUpload
startUpload_(u) ==
    LET nd == The(u.newDevInfo)
        fw == ReadFile(nd[1])
        fi == [fw |-> fw, size |-> Len(fw), packetNum |-> 0, packetSize |-> nd[2][5]]
        u1 == [u EXCEPT !.fwInfo = Some(fi)]
    IN  appCallback(u1, Frame(startUpload, nd[2] \o <<fi.size>>, <<>>))

\* Updater.__finishUpload
finishUpload_(u) ==
    IF u.fwInfo = None THEN Raise(u)
    ELSE LET fi == The(u.fwInfo)
             fwCrc == calcCrc(fi.fw)
         IN  appCallback(u, Frame(finishUpload, <<Len(fi.fw), fwCrc>>, <<>>))

\* Updater.__mcuSystemReset
mcuSystemReset(u) == appCallback(u, Frame(systemReset, <<>>, <<>>))

\* __processDeviceInfo as it would be without the test of __isUpdating
processDeviceInfo_NoGuard(u, packet) ==
    IF packet.len # UNPACK_DEVICE_INFO_LEN THEN Raise(u)
    ELSE LET found == getNewDeviceInfo(fwDict, packet.fields[1])
         IN  IF found = None THEN u
             ELSE startUpload_([u EXCEPT !.newDevInfo = found])

\* Updater.__processDeviceInfo
processDeviceInfo(u, packet) ==
    IF ~u.isUpdating
    THEN IF packet.len # UNPACK_DEVICE_INFO_LEN THEN Raise(u)   \* struct.error
         ELSE LET devInfoAnswer == packet.fields
                  found == getNewDeviceInfo(fwDict, devInfoAnswer[1])  \* devInfoAnswer[0]
              IN  IF found = None THEN u
                  ELSE startUpload_([u EXCEPT !.newDevInfo = found])
    ELSE u                                                       \* 'Already updating'

\* __processStartUpload as it would be if it did not look at the status
processStartUpload_AnyStatus(u, packet) ==
    IF packet.len # UNPACK_START_UPLOAD_LEN THEN Raise(u)
    ELSE sendFirmwarePacket([u EXCEPT !.isUpdating = TRUE], 0)

\* Updater.__processStartUpload
processStartUpload(u, packet) ==
    IF packet.len # UNPACK_START_UPLOAD_LEN THEN Raise(u)
    ELSE LET startAnswer == packet.fields
         IN  IF startAnswer[2] = success
             THEN sendFirmwarePacket([u EXCEPT !.isUpdating = TRUE], 0)
             ELSE u

\* __processFwPacket as it would be if it sent the FinishUpload request in the
\* same call as the last packet
processFwPacket_FinishAtOnce(u, packet) ==
    IF packet.len # UNPACK_FW_PACKET_LEN THEN Raise(u)
    ELSE LET fwPacketAnswer == packet.fields
         IN  IF fwPacketAnswer[2] = success
             THEN IF u.fwInfo = None THEN Raise(u)
                  ELSE IF The(u.fwInfo).size > 0
                       THEN LET u1 == sendFirmwarePacket(u, The(u.fwInfo).packetNum)
                            IN  IF The(u1.fwInfo).size = 0 THEN finishUpload_(u1) ELSE u1
                       ELSE finishUpload_(u)
             ELSE IF fwPacketAnswer[2] = wrontPageNumError
             THEN sendFirmwarePacket(u, fwPacketAnswer[3])
             ELSE u

\* Updater.__processFwPacket
processFwPacket(u, packet) ==
    IF packet.len # UNPACK_FW_PACKET_LEN THEN Raise(u)
    ELSE LET fwPacketAnswer == packet.fields
         IN  IF fwPacketAnswer[2] = success
             THEN IF u.fwInfo = None THEN Raise(u)
                  ELSE IF The(u.fwInfo).size > 0
                       THEN sendFirmwarePacket(u, The(u.fwInfo).packetNum)
                       ELSE finishUpload_(u)
             ELSE IF fwPacketAnswer[2] = wrontPageNumError
             THEN sendFirmwarePacket(u, fwPacketAnswer[3])
             ELSE u

\* __processFinishUpload as it would be if a success ended the session
processFinishUpload_Rearm(u, packet) ==
    IF packet.len # UNPACK_FINISH_UPLOAD_LEN THEN Raise(u)
    ELSE IF packet.fields[2] = success
         THEN mcuSystemReset([u EXCEPT !.isUpdating = FALSE])
         ELSE u

\* Updater.__processFinishUpload
processFinishUpload(u, packet) ==
    IF packet.len # UNPACK_FINISH_UPLOAD_LEN THEN Raise(u)
    ELSE LET finishAnswer == packet.fields
         IN  IF finishAnswer[2] = success THEN mcuSystemReset(u) ELSE u

\* the dispatch of Updater.receiveAnswer on packet[0]
Dispatch(u, packet) ==
    LET command == packet.fields[1]
    IN  IF command = deviceInfo THEN processDeviceInfo(u, packet)
        ELSE IF command = startUpload THEN processStartUpload(u, packet)
        ELSE IF command = fwPacket THEN processFwPacket(u, packet)
        ELSE IF command = finishUpload THEN processFinishUpload(u, packet)
        ELSE u

(***************************************************************************)
(* Inputs.                                                                 *)
(***************************************************************************)
DeviceIds == {7, 9}          \* device identifiers of images and of responses
PacketSizes == {0, 16, 19, 64}

TagOf(dev, major, minor, psize) == DeviceInfo(1, dev, major, minor, psize, 1024, BuildTime)

\* images of the session specifications: 38 bytes each, one per packet size,
\* and one whose MajorVersion differs
SessionImages ==
    {Image(<<>>, TagOf(7, 1, 0, p), <<>>) : p \in PacketSizes}
        \cup {Image(<<>>, TagOf(7, 2, 0, 16), <<>>)}

\* images of the selector specification
SelectorImages ==
    {Image(<<>>, TagOf(d, mj, mn, p), <<>>) : d \in DeviceIds, mj \in {1, 2}, mn \in {0, 1}, p \in {16, 19}}
        \cup {Image(<<3, 4>>, TagOf(9, 1, 1, 0), <<5>>), PlainImage, ShortImage(TagOf(7, 1, 0, 16), 27)}

\* device -> host packets; the fields of a packet of the wrong length are
\* never unpacked
DevInfoPackets ==
    {Packet(UNPACK_DEVICE_INFO_LEN, <<deviceInfo, 1, d, 1, 0, 16, 1024>>) : d \in DeviceIds}
        \cup {Packet(UNPACK_DEVICE_INFO_LEN + 1, <<deviceInfo>>)}
StartPackets ==
    {Packet(UNPACK_START_UPLOAD_LEN, <<startUpload, st>>) : st \in {success, packetSizeError}}
        \cup {Packet(UNPACK_START_UPLOAD_LEN - 1, <<startUpload>>)}
FwPackets ==
    {Packet(UNPACK_FW_PACKET_LEN, <<fwPacket, success, 0>>),
     Packet(UNPACK_FW_PACKET_LEN, <<fwPacket, crcError, 0>>),
     Packet(UNPACK_FW_PACKET_LEN - 4, <<fwPacket>>)}
        \cup {Packet(UNPACK_FW_PACKET_LEN, <<fwPacket, wrontPageNumError, k>>) : k \in 0..MaxK}
FinishPackets ==
    {Packet(UNPACK_FINISH_UPLOAD_LEN, <<finishUpload, st>>) : st \in {success, crcError}}
        \cup {Packet(UNPACK_FINISH_UPLOAD_LEN + 1, <<finishUpload>>)}
OtherPackets == {Packet(1, <<abortUpload>>), Packet(1, <<systemReset>>)}

Packets == DevInfoPackets \cup StartPackets \cup FwPackets \cup FinishPackets \cup OtherPackets
NoPacket == Packet(0, <<>>)

(***************************************************************************)
(* State after Updater.__init__ and the two entry points.                  *)
(***************************************************************************)
InitIn(dirs) ==
    /\ files \in dirs
    /\ fwDict = searchFirmwareFiles(files).dict
    /\ isUpdating = FALSE
    /\ newDevInfo = None
    /\ fwInfo = None
    /\ out = <<>>
    /\ pending = <<>>
    /\ last = [op |-> "__init__", packet |-> NoPacket]
    /\ sent = <<>>
    /\ raised = searchFirmwareFiles(files).error

\* the object as the entry point finds it
Self ==
    [isUpdating |-> isUpdating, newDevInfo |-> newDevInfo, fwInfo |-> fwInfo,
     sent |-> <<>>, raised |-> FALSE]

\* the requests of a frame list that wait for a response (a reset gets none)
Requests(frames) ==
    LET IsRequest(f) == f.cmd # systemReset
        Cmd(f) == f.cmd
        r == SelectSeq(frames, IsRequest)
    IN  [i \in 1..Len(r) |-> r[i].cmd]

\* the state a call leaves behind
Call(op, packet, u, max) ==
    /\ Len(out) + Len(u.sent) <= max
    /\ isUpdating' = u.isUpdating
    /\ newDevInfo' = u.newDevInfo
    /\ fwInfo' = u.fwInfo
    /\ sent' = u.sent
    /\ raised' = u.raised
    /\ out' = out \o u.sent
    /\ last' = [op |-> op, packet |-> packet]
    /\ UNCHANGED <<files, fwDict>>

\* Updater.receiveAnswer
receiveAnswer(packet, max) == Call("receiveAnswer", packet, Dispatch(Self, packet), max)

\* Updater.deviceInfoRequest
deviceInfoRequest(max) ==
    Call("deviceInfoRequest", NoPacket, appCallback(Self, Frame(deviceInfo, <<>>, <<>>)), max)

(***************************************************************************)
(* Spec: any packet may arrive at any time and the caller may ask for the  *)
(* device info at any time.  The peer keeps no inbox.                      *)
(***************************************************************************)
\* no directory, an empty one, one image, and two images of which the second
\* has the greater sort key but another MajorVersion
SessionDirs ==
    {None, Some(<<>>)}
        \cup {Some(<<Entry(1, c)>>) : c \in SessionImages}
        \cup {Some(<<Entry(1, Image(<<>>, TagOf(7, 1, 0, 19), <<>>)),
                     Entry(2, Image(<<>>, TagOf(9, 2, 0, 64), <<1, 2>>))>>)}

Init == InitIn(SessionDirs)

RecvDeviceInfo == \E p \in DevInfoPackets : receiveAnswer(p, MaxLog) /\ UNCHANGED pending
RecvStartUpload == \E p \in StartPackets : receiveAnswer(p, MaxLog) /\ UNCHANGED pending
RecvFwPacket == \E p \in FwPackets : receiveAnswer(p, MaxLog) /\ UNCHANGED pending
RecvFinishUpload == \E p \in FinishPackets : receiveAnswer(p, MaxLog) /\ UNCHANGED pending
RecvOther == \E p \in OtherPackets : receiveAnswer(p, MaxLog) /\ UNCHANGED pending
Asked == Len(SelectSeq(out, LAMBDA f : f.cmd = deviceInfo))
Request == Asked < MaxAsk /\ deviceInfoRequest(MaxLog) /\ UNCHANGED pending

Next ==
    \/ Request
    \/ RecvDeviceInfo
    \/ RecvStartUpload
    \/ RecvFwPacket
    \/ RecvFinishUpload
    \/ RecvOther

Spec == Init /\ [][Next]_vars

(***************************************************************************)
(* SpecDevice: the peer is a device that answers the requests it received, *)
(* oldest first, one response per request, with any status and any length. *)
(* The caller may still ask for the device info at any time.               *)
(***************************************************************************)
InitDevice == InitIn(SessionDirs)

Answer(S) ==
    /\ pending # <<>>
    /\ \E p \in S :
        /\ p.fields[1] = Head(pending)
        /\ receiveAnswer(p, MaxRun)
    /\ pending' = Tail(pending) \o Requests(sent')

DeviceAnswers == Answer(Packets)

CallerAsks ==
    /\ Asked < MaxCalls
    /\ deviceInfoRequest(MaxRun)
    /\ pending' = pending \o Requests(sent')

NextDevice ==
    \/ CallerAsks
    \/ DeviceAnswers

SpecDevice == InitDevice /\ [][NextDevice]_vars

(***************************************************************************)
(* SpecOk: the caller asks once and the device answers every request with  *)
(* a well-formed success response; the directory holds up to MaxFiles      *)
(* files.                                                                  *)
(***************************************************************************)
InitOk == InitIn({Some(d) : d \in DirsOf(SelectorImages, MaxFiles)})

OkPackets ==
    {p \in Packets :
        /\ p.fields[1] \in {deviceInfo, startUpload, fwPacket, finishUpload}
        /\ Len(p.fields) > 1
        /\ p.fields[1] # deviceInfo => p.fields[2] = success}

DeviceAnswersOk == Answer(OkPackets)

CallerAsksOnce ==
    /\ out = <<>>
    /\ deviceInfoRequest(MaxRun)
    /\ pending' = pending \o Requests(sent')

NextOk ==
    \/ CallerAsksOnce
    \/ DeviceAnswersOk

SpecOk == InitOk /\ [][NextOk]_vars

(***************************************************************************)
(* The session states of the specification, read off the object and the    *)
(* frames it has sent.                                                     *)
(***************************************************************************)
\* the last frame sent that is not a device info request (0: none)
ProtoLast ==
    LET s == SelectSeq(out, LAMBDA f : f.cmd # deviceInfo)
    IN  IF s = <<>> THEN 0 ELSE s[Len(s)].cmd

HasContext == fwInfo # None
SessionIdle == ~isUpdating /\ ~HasContext
AwaitingStartAck == ~isUpdating /\ HasContext /\ ProtoLast = startUpload
Uploading == isUpdating /\ HasContext /\ ProtoLast = fwPacket
AwaitingFinishAck == isUpdating /\ HasContext /\ ProtoLast = finishUpload

\* the call that led to the state described by l was receiveAnswer of a packet
\* with opcode cmd and the length len
Received(l, cmd, len) ==
    l.op = "receiveAnswer" /\ l.packet.fields[1] = cmd /\ l.packet.len = len
ReceivedAny(l, cmd) == l.op = "receiveAnswer" /\ l.packet.fields[1] = cmd

ContextUnchanged == UNCHANGED <<isUpdating, newDevInfo, fwInfo>>

\* image size and negotiated packet size of the upload context
S_ == Len(The(fwInfo).fw)
P_ == The(fwInfo).packetSize

(***************************************************************************)
(* C1  Resync.  Whenever the session is uploading and receives a FwPacket  *)
(* response with status wrong-page-number and index k, the frame sent in   *)
(* answer is the FwPacket with index k and remainingBytes is what it was   *)
(* before the response.  Stated as the claim has it; the code decrements   *)
(* remainingBytes on every send.                                           *)
(***************************************************************************)
C1_ResyncKeepsRemaining ==
    [][(/\ Uploading
        /\ Received(last', fwPacket, UNPACK_FW_PACKET_LEN)
        /\ last'.packet.fields[2] = wrontPageNumError)
       => (/\ Len(sent') = 1
           /\ sent'[1].cmd = fwPacket
           /\ sent'[1].args[1] = last'.packet.fields[3]
           /\ The(fwInfo').size = The(fwInfo).size)]_vars

(***************************************************************************)
(* C2  Selection.  For every catalog and every requested deviceId the      *)
(* selector returns None when no entry has that DeviceId, and otherwise an *)
(* entry of the catalog with that DeviceId whose (FwPacketSize,            *)
(* MinorVersion) key is the greatest among the entries with that DeviceId. *)
(* Stated as the claim has it; the code compares MajorVersion and sorts    *)
(* the whole catalog.                                                      *)
(***************************************************************************)
EntriesOf(dict, deviceId) == {i \in 1..Len(dict) : dict[i][2][2] = deviceId}

SelectsBestOf(dict, deviceId) ==
    LET r == getNewDeviceInfo(dict, deviceId)
        M == EntriesOf(dict, deviceId)
    IN  IF M = {} THEN r = None
        ELSE /\ r # None
             /\ \E i \in M : dict[i] = The(r)
             /\ \A i \in M : ~KeyLess(SortKey(The(r)), SortKey(dict[i]))

C2_SelectorPicksBestMatch == \A d \in DeviceIds \cup {1, 2} : SelectsBestOf(fwDict, d)

(***************************************************************************)
(* C3  Session guard.  A DeviceInfo response received in a non-Idle state, *)
(* AwaitingStartAck included, is rejected: the upload context is not       *)
(* replaced, no frame (so no second StartUpload) is sent and the state     *)
(* does not change.  Stated as the claim has it; the code tests            *)
(* __isUpdating, which is set only by the StartUpload success.             *)
(***************************************************************************)
C3_DeviceInfoRejectedWhenNotIdle ==
    [][(~SessionIdle /\ ReceivedAny(last', deviceInfo))
       => (ContextUnchanged /\ sent' = <<>>)]_vars

(***************************************************************************)
(* C4  Accounting.  While the FwPackets sent since the StartUpload request *)
(* are those with the indices 0, 1, 2, ... in this order, remainingBytes   *)
(* right after the packet with index i has been sent is                    *)
(* max(0, S - (i+1)*P).                                                    *)
(***************************************************************************)
\* the FwPacket frames sent after the last StartUpload request
FwSinceStart ==
    LET starts == {i \in 1..Len(out) : out[i].cmd = startUpload}
        from == IF starts = {} THEN 0 ELSE CHOOSE i \in starts : \A j \in starts : j <= i
    IN  SelectSeq(SubSeq(out, from + 1, Len(out)), LAMBDA f : f.cmd = fwPacket)

SentInOrder == \A j \in 1..Len(FwSinceStart) : FwSinceStart[j].args[1] = j - 1

JustSentFwPacket == Len(sent) = 1 /\ sent[1].cmd = fwPacket

C4_RemainingAfterPacket ==
    (JustSentFwPacket /\ SentInOrder)
        => The(fwInfo).size = Max(0, S_ - (sent[1].args[1] + 1) * P_)

\* the third packet of a 38-byte image in packets of 16 has been sent in order:
\* 38 - 3*16 is negative and the counter is 0
C4_Witness ==
    /\ JustSentFwPacket /\ SentInOrder
    /\ sent[1].args[1] = 2 /\ P_ = 16 /\ S_ = 38
    /\ The(fwInfo).size = 0

(***************************************************************************)
(* C5  Packet payload.  Every FwPacket frame sent, with index i, carries   *)
(* the offset i*P and a payload of exactly P bytes: the image bytes from   *)
(* offset i*P on, as far as the image reaches, and 0xFF after them.        *)
(* Stated as the claim has it; the code cuts the payload by the remaining  *)
(* byte count, which a resync takes out of step with the index.            *)
(***************************************************************************)
RealLen(size, psize, i) == Max(0, Min(psize, size - i * psize))
Chunk(fw, psize, i) ==
    [j \in 1..psize |-> IF j <= RealLen(Len(fw), psize, i) THEN fw[i * psize + j] ELSE PadByte]

C5_PayloadOfPacket ==
    JustSentFwPacket
        => LET i == sent[1].args[1]
           IN  /\ sent[1].args = <<i, P_, i * P_>>
               /\ sent[1].payload = Chunk(The(fwInfo).fw, P_, i)

(***************************************************************************)
(* C6  Successful run ordering.  With a catalog entry that has the         *)
(* DeviceId the device reports and a device that answers every request     *)
(* with success, the frames sent after the device info request are one     *)
(* StartUpload for an entry with that DeviceId, the FwPackets 0..n-1 with  *)
(* n = S \div P plus one when S % P # 0, one FinishUpload with the length  *)
(* S and the checksum of the image, and one SystemReset.  Stated as the    *)
(* claim has it; the code does not look at the reported DeviceId.          *)
(***************************************************************************)
PacketCount(size, psize) == (size \div psize) + (IF size % psize # 0 THEN 1 ELSE 0)

\* the frames of a whole successful upload of the image fw of the entry info
RunOf(info, fw, psize) ==
    <<Frame(deviceInfo, <<>>, <<>>), Frame(startUpload, info \o <<Len(fw)>>, <<>>)>>
        \o [k \in 1..PacketCount(Len(fw), psize) |->
                Frame(fwPacket, <<k - 1, psize, (k - 1) * psize>>, Chunk(fw, psize, k - 1))]
        \o <<Frame(finishUpload, <<Len(fw), calcCrc(fw)>>, <<>>), Frame(systemReset, <<>>, <<>>)>>

IsPrefix(s, t) == Len(s) <= Len(t) /\ s = SubSeq(t, 1, Len(s))

\* StartUpload answers the device info response when an entry has its DeviceId
StartsWhenMatched ==
    (/\ Received(last, deviceInfo, UNPACK_DEVICE_INFO_LEN)
     /\ EntriesOf(fwDict, last.packet.fields[3]) # {})
        => /\ Len(sent) = 1
           /\ sent[1].cmd = startUpload
           /\ sent[1].args[2] = last.packet.fields[3]

\* what has been sent is the beginning of the run, and all of it at the reset
FollowsRun ==
    (HasContext /\ P_ > 0)
        => LET run == RunOf(The(newDevInfo)[2], The(fwInfo).fw, P_)
           IN  /\ IsPrefix(out, run)
               /\ (out[Len(out)].cmd = systemReset => out = run)

C6_SuccessfulRunOrder == StartsWhenMatched /\ FollowsRun

(***************************************************************************)
(* C7  Selection miss.  When a DeviceInfo response reports a DeviceId that *)
(* no catalog entry has, the session stays Idle, no upload context is made *)
(* and no frame is sent.  Stated as the claim has it; the code matches the *)
(* opcode byte of the response against MajorVersion.                       *)
(***************************************************************************)
C7_NoMatchStaysIdle ==
    [][(/\ SessionIdle
        /\ Received(last', deviceInfo, UNPACK_DEVICE_INFO_LEN)
        /\ EntriesOf(fwDict, last'.packet.fields[3]) = {})
       => (SessionIdle' /\ newDevInfo' = None /\ sent' = <<>>)]_vars

(***************************************************************************)
(* C8  Scenario C.  A DeviceInfo response that arrives while the session   *)
(* is Uploading changes neither the session state, nor the selected entry, *)
(* nor remainingBytes, nor the next packet index, nothing is sent, and the *)
(* call returns normally.                                                  *)
(***************************************************************************)
C8_DeviceInfoWhileUploading ==
    [][(Uploading /\ ReceivedAny(last', deviceInfo))
       => (ContextUnchanged /\ Uploading' /\ sent' = <<>> /\ out' = out /\ ~raised')]_vars

\* a DeviceInfo response has just been handled in Uploading, after packet 1
C8_Witness ==
    /\ Uploading
    /\ ReceivedAny(last, deviceInfo)
    /\ sent = <<>>
    /\ The(fwInfo).packetNum = 2

(***************************************************************************)
(* C9  Guard never re-armed.  Once the session is active it stays active,  *)
(* through FinishUpload success and SystemReset too: from then on no       *)
(* StartUpload is sent and every DeviceInfo response is rejected.          *)
(***************************************************************************)
C9_GuardNeverCleared ==
    [][isUpdating
       => (/\ isUpdating'
           /\ \A i \in 1..Len(sent') : sent'[i].cmd # startUpload
           /\ ReceivedAny(last', deviceInfo) => (ContextUnchanged /\ sent' = <<>>))]_vars

\* a DeviceInfo response has been rejected after a whole upload and its reset
C9_Witness ==
    /\ isUpdating
    /\ HasContext /\ P_ > 0
    /\ out = Tail(RunOf(The(newDevInfo)[2], The(fwInfo).fw, P_))
    /\ Received(last, deviceInfo, UNPACK_DEVICE_INFO_LEN)
    /\ sent = <<>>

(***************************************************************************)
(* C10  Half-duplex discipline.  At most one request sent by the engine    *)
(* waits for its response at any time.  Stated as the claim has it;        *)
(* deviceInfoRequest sends whatever the session is waiting for.            *)
(***************************************************************************)
C10_OneOutstandingRequest == Len(pending) <= 1

(***************************************************************************)
(* C11  Framing errors are not fatal.  receiveAnswer of a DeviceInfo,      *)
(* StartUpload, FwPacket or FinishUpload response whose length is not the  *)
(* expected 19, 2, 6 or 2 bytes returns normally.  Stated as the claim has *)
(* it; the code logs the wrong length and then unpacks the packet, which   *)
(* raises struct.error.                                                    *)
(***************************************************************************)
ExpectedLen(cmd) ==
    CASE cmd = deviceInfo -> UNPACK_DEVICE_INFO_LEN
      [] cmd = startUpload -> UNPACK_START_UPLOAD_LEN
      [] cmd = fwPacket -> UNPACK_FW_PACKET_LEN
      [] cmd = finishUpload -> UNPACK_FINISH_UPLOAD_LEN
      [] OTHER -> 1

HasFixedLength(cmd) == cmd \in {deviceInfo, startUpload, fwPacket, finishUpload}

C11_FramingErrorReturns ==
    (/\ last.op = "receiveAnswer"
     /\ HasFixedLength(last.packet.fields[1])
     /\ last.packet.len # ExpectedLen(last.packet.fields[1]))
        => ~raised

(***************************************************************************)
(* C12  Protocol-status errors stall.  On a StartUpload or FinishUpload    *)
(* response with a status other than success, and on a FwPacket response   *)
(* whose status is neither success nor wrong-page-number, nothing is sent  *)
(* and the active flag, the selected entry, remainingBytes and the next    *)
(* packet index stay as they are; the call returns normally.               *)
(***************************************************************************)
\* the packet is a well-formed response that reports a status the code does
\* not handle
IsStatusError(packet) ==
    LET cmd == packet.fields[1]
    IN  /\ cmd \in {startUpload, fwPacket, finishUpload}
        /\ packet.len = ExpectedLen(cmd)
        /\ packet.fields[2] # success
        /\ cmd = fwPacket => packet.fields[2] # wrontPageNumError

C12_StatusErrorStalls ==
    [][(last'.op = "receiveAnswer" /\ IsStatusError(last'.packet))
       => (ContextUnchanged /\ sent' = <<>> /\ out' = out /\ ~raised')]_vars

\* a FwPacket response with a CRC error status has been handled in Uploading
C12_Witness ==
    /\ Uploading
    /\ Received(last, fwPacket, UNPACK_FW_PACKET_LEN)
    /\ last.packet.fields[2] = crcError
    /\ sent = <<>>
    /\ The(fwInfo).size > 0

(***************************************************************************)
(* C13  An active session has an upload context.  In every state that any *)
(* sequence of inbound frames leads to, the session being marked active    *)
(* implies that the firmware is loaded.  Stated as the claim has it; a     *)
(* StartUpload success sets the flag before it looks at the context.       *)
(***************************************************************************)
C13_ActiveHasContext == isUpdating => HasContext

(***************************************************************************)
(* C14  Nothing is fatal.  receiveAnswer of a frame of the right length    *)
(* with a recognized opcode returns normally in every reachable state,     *)
(* whatever its status and resync index.  Stated as the claim has it; the  *)
(* handlers of StartUpload and FwPacket use the context without testing    *)
(* that there is one.                                                      *)
(***************************************************************************)
IsRecognized(packet) ==
    /\ packet.fields[1] \in {deviceInfo, startUpload, fwPacket, finishUpload, abortUpload}
    /\ HasFixedLength(packet.fields[1]) => packet.len = ExpectedLen(packet.fields[1])

C14_WellFormedNeverRaises ==
    (last.op = "receiveAnswer" /\ IsRecognized(last.packet)) => ~raised

(***************************************************************************)
(* C15  The next packet index never decreases due to success.  A step     *)
(* that handles a StartUpload success or a FwPacket success leaves         *)
(* packetNum at least as large as it was; only a wrong-page-number         *)
(* response may lower it.  Stated as the claim has it; a StartUpload       *)
(* success that arrives during the upload restarts at packet 0.            *)
(***************************************************************************)
IsSuccess(packet) ==
    /\ packet.fields[1] \in {startUpload, fwPacket}
    /\ packet.len = ExpectedLen(packet.fields[1])
    /\ packet.fields[2] = success

C15_SuccessNeverLowersIndex ==
    [][(/\ last'.op = "receiveAnswer"
        /\ IsSuccess(last'.packet)
        /\ HasContext /\ HasContext')
           => The(fwInfo').packetNum >= The(fwInfo).packetNum]_vars

(***************************************************************************)
(* C16  Remaining bytes only go down while the session is active.  From a *)
(* state where the session is marked active and the firmware is loaded,    *)
(* every step leaves size at most its previous value and at least 0.       *)
(***************************************************************************)
C16_RemainingNonIncreasing ==
    [][(isUpdating /\ HasContext)
           => /\ HasContext'
              /\ The(fwInfo').size <= The(fwInfo).size
              /\ The(fwInfo').size >= 0]_vars

\* a resync to an earlier packet has been answered although nothing was left:
\* an empty padded packet went out and the remaining size stayed at 0
C16_Witness ==
    /\ Uploading
    /\ Received(last, fwPacket, UNPACK_FW_PACKET_LEN)
    /\ last.packet.fields[2] = wrontPageNumError
    /\ Len(sent) = 1
    /\ sent[1].cmd = fwPacket
    /\ The(fwInfo).size = 0
    /\ The(fwInfo).packetSize > 0

(***************************************************************************)
(* C17  One FinishUpload request per upload.  Among the requests sent      *)
(* since the last StartUpload request there is at most one FinishUpload    *)
(* (each carries the result of one call of the checksum function), even if *)
(* further FwPacket successes arrive after the remaining size reached 0.   *)
(* Stated as the claim has it; every FwPacket success with nothing left    *)
(* computes the checksum and sends FinishUpload again.                     *)
(***************************************************************************)
LastStart ==
    LET I == {i \in 1..Len(out) : out[i].cmd = startUpload}
    IN  IF I = {} THEN 0 ELSE CHOOSE i \in I : \A j \in I : j <= i

\* the FinishUpload requests sent after the last StartUpload request and
\* before the SystemReset that follows it
FinishSinceStart ==
    {i \in (LastStart + 1)..Len(out) :
        /\ out[i].cmd = finishUpload
        /\ \A j \in (LastStart + 1)..i : out[j].cmd # systemReset}

C17_OneFinishPerUpload ==
    LastStart > 0 => Cardinality(FinishSinceStart) <= 1

(***************************************************************************)
(* C18  At most one outbound frame per inbound frame.  One call of         *)
(* receiveAnswer hands zero or one frame to the outbound sink, whatever    *)
(* the state and the frame; one call of deviceInfoRequest hands it exactly *)
(* one.                                                                    *)
(***************************************************************************)
C18_OneFramePerCall ==
    /\ last.op = "receiveAnswer" => Len(sent) <= 1
    /\ last.op = "deviceInfoRequest" => Len(sent) = 1

\* the last packet of the image has been acknowledged: the call sent the
\* FinishUpload request and nothing else
C18_Witness ==
    /\ AwaitingFinishAck
    /\ Received(last, fwPacket, UNPACK_FW_PACKET_LEN)
    /\ last.packet.fields[2] = success
    /\ Len(sent) = 1
    /\ sent[1].cmd = finishUpload

(***************************************************************************)
(* C19  Catalog membership.  After every directory scan, a candidate file  *)
(* without the tag has no catalog entry, and a candidate file with the tag *)
(* and 28 bytes after its first occurrence has exactly one entry, decoded  *)
(* from these 28 bytes, whatever other files are in the directory and in   *)
(* whatever order they are listed.  Stated as the claim has it; a          *)
(* truncated file listed earlier ends the scan for the files after it.     *)
(***************************************************************************)
IsCandidate(f) == f.isfile /\ f.bin
TagBlock(data) ==
    Slice(data, TagIndex(data) + Len(DEVICE_INFO_TAG),
                TagIndex(data) + Len(DEVICE_INFO_TAG) + UNPACK_BIN_TAG_LEN)
IsTruncated(data) == HasTag(data) /\ Len(TagBlock(data)) < UNPACK_BIN_TAG_LEN
EntriesFor(name) == {i \in 1..Len(fwDict) : fwDict[i][1] = name}

C19_CatalogMembership ==
    files # None =>
        \A k \in 1..Len(The(files)) :
            LET f == The(files)[k]
            IN  IsCandidate(f) =>
                    /\ ~HasTag(f.data) => EntriesFor(f.name) = {}
                    /\ (HasTag(f.data) /\ ~IsTruncated(f.data)) =>
                           /\ Cardinality(EntriesFor(f.name)) = 1
                           /\ \A i \in EntriesFor(f.name) :
                                  fwDict[i][2] = UnpackBinTag(TagBlock(f.data))

(***************************************************************************)
(* C20  Catalog construction never raises.  For every directory, one with  *)
(* a file whose tag is followed by fewer than 28 bytes included, the       *)
(* constructor returns normally with the entries of the tagged files       *)
(* listed before the first such file, and the engine can be used: a        *)
(* device info request on it sends its frame.                              *)
(***************************************************************************)
FirstTruncated ==
    LET d == SelectSeq(The(files), IsCandidate)
        I == {k \in 1..Len(d) : IsTruncated(d[k].data)}
    IN  IF I = {} THEN Len(d) + 1 ELSE CHOOSE k \in I : \A j \in I : k <= j

EntriesBeforeFailure ==
    LET d == SelectSeq(The(files), IsCandidate)
        Tagged(f) == HasTag(f.data)
        kept == SelectSeq(SubSeq(d, 1, FirstTruncated - 1), Tagged)
    IN  [i \in 1..Len(kept) |-> <<kept[i].name, UnpackBinTag(TagBlock(kept[i].data))>>]

C20_ConstructionNeverRaises ==
    /\ last.op = "__init__" => ~raised
    /\ fwDict = IF files = None THEN <<>> ELSE EntriesBeforeFailure
    /\ last.op = "deviceInfoRequest" => (~raised /\ Len(sent) = 1)

\* an engine built on a directory whose second file is truncated keeps the
\* entry of the first file and has answered a device info request
C20_Witness ==
    /\ files # None
    /\ Len(The(files)) = 2
    /\ IsTruncated(The(files)[2].data)
    /\ Len(fwDict) = 1
    /\ last.op = "deviceInfoRequest"
    /\ Len(sent) = 1

(***************************************************************************)
(* C21  Selector tie-break.  When several entries with the requested       *)
(* DeviceId share the greatest (FwPacketSize, MinorVersion) key among the  *)
(* entries of that device, the selector returns the one of them that was   *)
(* registered last.  Stated as the claim has it; which entries take part   *)
(* is decided by the comparison and the sort of C2.                        *)
(***************************************************************************)
TiedBest(dict, deviceId) ==
    {i \in EntriesOf(dict, deviceId) :
        \A j \in EntriesOf(dict, deviceId) : ~KeyLess(SortKey(dict[i]), SortKey(dict[j]))}

LastOf(I) == CHOOSE i \in I : \A j \in I : j <= i

C21_TieBreakLastRegistered ==
    \A d \in DeviceIds \cup {1, 2} :
        Cardinality(TiedBest(fwDict, d)) >= 2 =>
            getNewDeviceInfo(fwDict, d) = Some(fwDict[LastOf(TiedBest(fwDict, d))])

(***************************************************************************)
(* C22  Transfer completeness under resync.  A FinishUpload request is     *)
(* sent only after, for every packet index i of the image, a FwPacket with *)
(* index i has been sent in this upload whose data bytes are the image     *)
(* bytes from i*P up to min(S, (i+1)*P).  Stated as the claim has it; a    *)
(* resync takes its chunk off the remaining size again (C1), so the size   *)
(* reaches 0 before the last indices have been sent.                       *)
(***************************************************************************)
\* a FwPacket with index i and the right data is among the frames sent after
\* the last StartUpload request and before position k
SentWithData(i, k) ==
    \E j \in (LastStart + 1)..(k - 1) :
        /\ out[j].cmd = fwPacket
        /\ out[j].args[1] = i
        /\ Slice(out[j].payload, 0, RealLen(S_, P_, i))
               = Slice(The(fwInfo).fw, i * P_, Min(S_, (i + 1) * P_))

C22_FinishOnlyWhenAllSent ==
    (HasContext /\ P_ > 0 /\ LastStart > 0)
        => \A k \in (LastStart + 1)..Len(out) :
               out[k].cmd = finishUpload
                   => \A i \in 0..(PacketCount(S_, P_) - 1) : SentWithData(i, k)

(***************************************************************************)
(* SpecOkFair: SpecOk with a device that does answer: a response that can  *)
(* be delivered is delivered eventually.                                   *)
(***************************************************************************)
SpecOkFair == SpecOk /\ WF_vars(DeviceAnswersOk)

(***************************************************************************)
(* C23  Termination.  With a device that answers every request with        *)
(* success and responses that are delivered, an upload that has been       *)
(* started (StartUpload sent) leads to FinishUpload and then SystemReset   *)
(* being sent, for every packet size the catalog carries, 0 included; and  *)
(* every FwPacket sent while the remaining size is positive makes it       *)
(* strictly smaller.  Stated as the claim has it; with a packet size of 0  *)
(* a packet takes nothing off the remaining size.                          *)
(***************************************************************************)
StartSent == \E i \in 1..Len(out) : out[i].cmd = startUpload
FinishThenReset ==
    \E i, j \in 1..Len(out) :
        i < j /\ out[i].cmd = finishUpload /\ out[j].cmd = systemReset

PacketTakesBytes ==
    (HasContext /\ The(fwInfo).size > 0 /\ JustSentFwPacket' /\ out' # out)
        => The(fwInfo').size < The(fwInfo).size

C23_UploadTerminates ==
    /\ [][PacketTakesBytes]_vars
    /\ StartSent ~> FinishThenReset

(***************************************************************************)
(* C24  Reset ordering.  A SystemReset request is sent only by a session   *)
(* that has sent FinishUpload and is waiting for its acknowledgement: a    *)
(* FinishUpload success received in Idle, AwaitingStartAck or Uploading    *)
(* sends no SystemReset.  Stated as the claim has it; the handler sends    *)
(* the reset on every FinishUpload success.                                *)
(***************************************************************************)
SendsReset == out' # out /\ \E i \in 1..Len(sent') : sent'[i].cmd = systemReset

C24_ResetOnlyAfterFinish == [][SendsReset => AwaitingFinishAck]_vars

====
